---- MODULE Spec2Model ----
(***************************************************************************)
(* The IO content-addressable storage client (examples/python/client.py)   *)
(* talking over HTTP to the storage service it addresses.                  *)
(*                                                                         *)
(* The client (class IOClient) is translated from its source.  The service *)
(* behind /api/store, /api/file/{sha1} and /api/exists/{sha1} is not part  *)
(* of the sources at hand; it is modelled from sections 4-6 of the         *)
(* specification (write to a temporary, publish atomically, create if      *)
(* absent, idempotent delete).                                             *)
(***************************************************************************)
EXTENDS Integers, Sequences, FiniteSets

VARIABLES
    localFiles,   \* client disk: the files store_file can read, path -> bytes
    pc,           \* each caller's position: idle, sent, staging, responded
    req,          \* the request a caller has in flight
    resp,         \* the response waiting for the caller
    tmp,          \* service: the temporary a store request is staged in
    entries,      \* service: the persisted entries, a list of [digest, data]
    outpath,      \* client disk: the file at the output_path of a get_file in flight
    ncalls,       \* number of client calls started so far
    abs,          \* history: what the finished calls say about each sha1
    expect,       \* history: what a call in flight can rely on
    returned,     \* history: the sha1 values store_file has returned, per content
    last          \* history: the call that returned most recently

vars == <<localFiles, outpath, pc, req, resp, tmp, entries, ncalls, abs, expect,
          returned, last>>

-----------------------------------------------------------------------------
(* Bounds *)

NCallers == 2
MaxLen == 2
MaxCalls == 2

Callers == 1..NCallers
Byte == {0, 1}
\* what a local file can hold: every content of up to MaxLen bytes, and one
\* content that is a byte longer than the service accepts
Oversized == [i \in 1..(MaxLen + 1) |-> 0]
Blobs == UNION {[1..n -> Byte] : n \in 1..MaxLen} \cup {Oversized}
Paths == {"test.txt"}

-----------------------------------------------------------------------------
(* Pure parts of the client *)

api_key == "your-secure-api-key"

\* iter_content(chunk_size=8192), scaled down with the blobs so that a
\* response body spans several chunks
chunk_size == 1

\* a variant that lets client errors through
raise_for_status_5xx(status) == 500 <= status /\ status < 600

\* requests.Response.raise_for_status: raises HTTPError for 4xx and 5xx only
raise_for_status(status) == 400 <= status /\ status < 600

\* resp.iter_content(chunk_size): the content cut into chunks of at most n bytes
RECURSIVE iter_content(_, _)
iter_content(content, n) ==
    IF content = <<>> THEN <<>>
    ELSE IF Len(content) <= n THEN <<content>>
    ELSE <<SubSeq(content, 1, n)>> \o iter_content(SubSeq(content, n + 1, Len(content)), n)

\* a variant that reopens the file for every chunk, keeping only the last one
write_chunks_reopen(f, chunks) == IF chunks = <<>> THEN f ELSE chunks[Len(chunks)]

\* for chunk in ...: f.write(chunk)
RECURSIVE write_chunks(_, _)
write_chunks(f, chunks) ==
    IF chunks = <<>> THEN f ELSE write_chunks(f \o Head(chunks), Tail(chunks))

\* a variant that opens in append mode ('ab')
open_ab_and_write(old, content) ==
    [exists |-> TRUE, data |-> write_chunks(old.data, iter_content(content, chunk_size))]

\* open(output_path, 'wb') truncates, then the chunks are written in order
open_wb_and_write(old, content) ==
    [exists |-> TRUE, data |-> write_chunks(<<>>, iter_content(content, chunk_size))]

NoFile == [exists |-> FALSE, data |-> <<>>]
\* the file at output_path before get_file runs: missing, or left by an earlier run
OutputFiles == {NoFile, [exists |-> TRUE, data |-> <<1>>]}

-----------------------------------------------------------------------------
(* HTTP messages *)

JsonBody(keys, sha, ex) ==
    [kind |-> "json", data |-> <<>>, keys |-> keys, sha1 |-> sha, exists |-> ex]
BytesBody(data) ==
    [kind |-> "bytes", data |-> data, keys |-> {}, sha1 |-> <<>>, exists |-> FALSE]

Response(status, body, by) == [status |-> status, body |-> body, by |-> by]
NoResp == Response(0, BytesBody(<<>>), "none")

\* op is the client method that waits for the answer; the rest goes on the wire
Request(op, method, route, sha, body) ==
    [op |-> op, method |-> method, route |-> route, sha1 |-> sha, body |-> body,
     key |-> api_key]
NoReq == Request("none", "", "", <<>>, <<>>)

\* a variant that posts only the first byte of the file
store_file_request_truncated(content) ==
    Request("store", "POST", "store", <<>>, SubSeq(content, 1, 1))

\* requests.post(f"{base_url}/api/store", files={'file': (name, f)}, headers=...)
store_file_request(content) == Request("store", "POST", "store", <<>>, content)

\* a variant that uses the method of delete_file on the same URL
get_file_request_delete(sha) == Request("get", "DELETE", "file", sha, <<>>)

\* requests.get(f"{base_url}/api/file/{sha1}", headers=..., stream=True)
get_file_request(sha) == Request("get", "GET", "file", sha, <<>>)

\* requests.delete(f"{base_url}/api/file/{sha1}", headers=...)
delete_file_request(sha) == Request("delete", "DELETE", "file", sha, <<>>)

\* requests.get(f"{base_url}/api/exists/{sha1}", headers=...)
file_exists_request(sha) == Request("exists", "GET", "exists", sha, <<>>)

\* what a client method hands back: a value, or an exception
Returned(sha, ex, keys) ==
    [raised |-> FALSE, error |-> "", sha1 |-> sha, exists |-> ex, keys |-> keys]
Raised(err) ==
    [raised |-> TRUE, error |-> err, sha1 |-> <<>>, exists |-> FALSE, keys |-> {}]

\* resp.raise_for_status(); return resp.json()['sha1']
store_file_result(r) ==
    IF raise_for_status(r.status) THEN Raised("HTTPError")
    ELSE IF r.body.kind # "json" THEN Raised("JSONDecodeError")
    ELSE IF "sha1" \notin r.body.keys THEN Raised("KeyError")
    ELSE Returned(r.body.sha1, FALSE, {})

\* a variant that picks a key out of the ack
delete_file_result_key(r) ==
    IF raise_for_status(r.status) THEN Raised("HTTPError")
    ELSE IF r.body.kind # "json" THEN Raised("JSONDecodeError")
    ELSE IF "sha1" \notin r.body.keys THEN Raised("KeyError")
    ELSE Returned(r.body.sha1, FALSE, {})

\* resp.raise_for_status(); return resp.json()
delete_file_result(r) ==
    IF raise_for_status(r.status) THEN Raised("HTTPError")
    ELSE IF r.body.kind # "json" THEN Raised("JSONDecodeError")
    ELSE Returned(<<>>, FALSE, r.body.keys)

\* resp.raise_for_status(); return resp.json()['exists']
file_exists_result(r) ==
    IF raise_for_status(r.status) THEN Raised("HTTPError")
    ELSE IF r.body.kind # "json" THEN Raised("JSONDecodeError")
    ELSE IF "exists" \notin r.body.keys THEN Raised("KeyError")
    ELSE Returned(<<>>, r.body.exists, {})

\* resp.raise_for_status(); then the with-block; returns None
get_file_result(r) ==
    IF raise_for_status(r.status) THEN Raised("HTTPError")
    ELSE Returned(<<>>, FALSE, {})

\* the output file after get_file: it is opened only once the status has passed
get_file_output(old, r) ==
    IF raise_for_status(r.status) THEN old ELSE open_wb_and_write(old, r.body.data)

-----------------------------------------------------------------------------
(* The service: digest, hex encoding, the entry table *)

HexLen == 2
HexDigits == <<"0", "1", "2", "3", "4", "5", "6", "7",
               "8", "9", "a", "b", "c", "d", "e", "f">>

\* the content hash, as an injective code of the bytes (collision-free, as
\* SHA-1 is taken to be), below 16^HexLen
RECURSIVE Digest(_)
Digest(b) == IF b = <<>> THEN 0 ELSE (Head(b) + 1) + 3 * Digest(Tail(b))

\* fixed-format lowercase hex, most significant digit first
hexdigest(d) == [i \in 1..HexLen |-> HexDigits[((d \div (16 ^ (HexLen - i))) % 16) + 1]]

HexValue(ch) == (CHOOSE i \in 1..16 : HexDigits[i] = ch) - 1
RECURSIVE ParseHex(_)
ParseHex(s) ==
    IF s = <<>> THEN 0 ELSE 16 * ParseHex(SubSeq(s, 1, Len(s) - 1)) + HexValue(s[Len(s)])

Sha1Hex(b) == hexdigest(Digest(b))

\* the configured maximum blob size; longer bodies are PayloadTooLarge
maxBlobSize == MaxLen

\* request bodies are streamed in bounded chunks
StreamChunk == 1

Present(d) == \E i \in 1..Len(entries) : entries[i].digest = d
Lookup(d) == entries[CHOOSE i \in 1..Len(entries) : entries[i].digest = d].data
EntriesFor(d) == {i \in 1..Len(entries) : entries[i].digest = d}

Entry(b) == [digest |-> Digest(b), data |-> b]

\* a variant that writes a new entry for every store
PublishAlways(es, d, data) == Append(es, [digest |-> d, data |-> data])

\* create-if-absent: a second store of the same digest rewrites nothing
Publish(es, d, data) ==
    IF \E i \in 1..Len(es) : es[i].digest = d THEN es
    ELSE Append(es, [digest |-> d, data |-> data])

\* a variant that empties the entry and leaves it in place
RemoveTruncates(es, d) ==
    [i \in 1..Len(es) |-> IF es[i].digest = d THEN [es[i] EXCEPT !.data = <<>>] ELSE es[i]]

Remove(es, d) == SelectSeq(es, LAMBDA e : e.digest # d)

-----------------------------------------------------------------------------
(* History: what the calls made so far allow a caller to rely on *)

\* the sha1 a call is about: the one passed in, or the digest of the file stored
ShaOf(c) == expect[c].sha
InFlight(c, op, s) == pc[c] # "idle" /\ req[c].op = op /\ ShaOf(c) = s

\* the sha1 values a caller passes: computed from its file, or returned by store_file
LocalShas == {Sha1Hex(localFiles[p]) : p \in Paths}
ShaArgs == LocalShas \cup {r.sha1 : r \in returned}

\* never:   no store of this content was ever called
\* deleted: a delete returned its ack, and no store overlapped it or came later
\* present: a store returned the sha1, and no delete overlapped it or came later
\* racing:  anything else
Known(st, data) == [st |-> st, data |-> data]
Never == Known("never", <<>>)
Deleted == Known("deleted", <<>>)
Racing == Known("racing", <<>>)

KnownOf(s) == IF s \in DOMAIN abs THEN abs[s] ELSE Racing

\* sha, st, data: the sha1 the call is about and what is known of it
\* prior:         what was known of it when the call began
\* overlap:       a store that ran at the same time as another store of the sha1
\* again:         a store of content that store_file has returned a sha1 for before
Expect(sha, st, data, prior, overlap, again) ==
    [sha |-> sha, st |-> st, data |-> data, prior |-> prior, overlap |-> overlap,
     again |-> again]
NoExpect == Expect(<<>>, "racing", <<>>, "racing", FALSE, FALSE)
ReadExpect(s) == Expect(s, KnownOf(s).st, KnownOf(s).data, KnownOf(s).st, FALSE, FALSE)

\* a store is called on s: calls that rely on s being absent lose that
AfterStoreCall(c, s, mine) ==
    [k \in Callers |->
        IF k = c THEN mine
        ELSE IF pc[k] # "idle" /\ ShaOf(k) = s
        THEN [expect[k] EXCEPT
                 !.st = IF @ \in {"never", "deleted"} THEN "racing" ELSE @,
                 !.overlap = IF req[k].op = "store" THEN TRUE ELSE @]
        ELSE expect[k]]

\* a delete is called on s: calls that rely on s being present lose that
AfterDeleteCall(c, s, mine) ==
    [k \in Callers |->
        IF k = c THEN mine
        ELSE IF pc[k] # "idle" /\ ShaOf(k) = s
        THEN [expect[k] EXCEPT !.st = IF @ = "present" THEN "racing" ELSE @]
        ELSE expect[k]]

NoLast ==
    [op |-> "none", sha1 |-> <<>>, body |-> <<>>, status |-> 0,
     by |-> "none", expect |-> NoExpect, result |-> Raised(""),
     before |-> NoFile, after |-> NoFile]

Finished(c, result, before, after) ==
    [op |-> req[c].op, sha1 |-> ShaOf(c), body |-> expect[c].data,
     status |-> resp[c].status, by |-> resp[c].by, expect |-> expect[c],
     result |-> result, before |-> before, after |-> after]

-----------------------------------------------------------------------------
(* Initial state: the client has its file; the service holds an entry for    *)
(* some other content, and may already hold the content of the local file.   *)

OtherBlob(b) == IF b = <<0>> THEN <<1, 0>> ELSE <<0>>

InitialEntries(b) ==
    {<<Entry(OtherBlob(b))>>}
    \cup (IF Len(b) <= maxBlobSize THEN {<<Entry(OtherBlob(b)), Entry(b)>>} ELSE {})

Init ==
    /\ localFiles \in [Paths -> Blobs]
    /\ outpath = [c \in Callers |-> NoFile]
    /\ pc = [c \in Callers |-> "idle"]
    /\ req = [c \in Callers |-> NoReq]
    /\ resp = [c \in Callers |-> NoResp]
    /\ tmp = [c \in Callers |-> <<>>]
    /\ entries \in InitialEntries(localFiles["test.txt"])
    /\ ncalls = 0
    /\ abs = [s \in LocalShas |->
                 IF \E i \in 1..Len(entries) : hexdigest(entries[i].digest) = s
                 THEN Known("present",
                            entries[CHOOSE i \in 1..Len(entries) :
                                        hexdigest(entries[i].digest) = s].data)
                 ELSE Never]
    /\ expect = [c \in Callers |-> NoExpect]
    /\ returned = {}
    /\ last = NoLast

-----------------------------------------------------------------------------
(* Client calls: the request goes out *)

\* Callers are interchangeable: the next call is taken by the first idle one.
Send(c, r, f) ==
    /\ pc[c] = "idle" /\ ncalls < MaxCalls
    /\ \A k \in Callers : k < c => pc[k] # "idle"
    /\ req' = [req EXCEPT ![c] = r]
    /\ outpath' = [outpath EXCEPT ![c] = f]
    /\ pc' = [pc EXCEPT ![c] = "sent"]
    /\ ncalls' = ncalls + 1
    /\ UNCHANGED <<localFiles, resp, tmp, entries, returned, last>>

\* store_file: open(file_path, 'rb') and post its content
StoreFileCall(c, p) ==
    LET b == localFiles[p]
        s == Sha1Hex(b)
        mine == Expect(s,
                       IF \E k \in Callers : InFlight(k, "delete", s)
                       THEN "racing" ELSE "present",
                       b, abs[s].st,
                       \E k \in Callers : InFlight(k, "store", s),
                       \E r \in returned : r.body = b)
    IN  /\ Send(c, store_file_request(b), NoFile)
        /\ expect' = AfterStoreCall(c, s, mine)
        /\ abs' = [abs EXCEPT ![s] = IF @.st = "present" THEN @ ELSE Racing]

\* get_file, up to the request; output_path names a file that exists or not
GetFileCall(c, s, f) ==
    /\ Send(c, get_file_request(s), f)
    /\ expect' = [expect EXCEPT ![c] = ReadExpect(s)]
    /\ UNCHANGED abs

\* delete_file, up to the request
DeleteFileCall(c, s) ==
    LET mine == Expect(s,
                       IF \E k \in Callers : InFlight(k, "store", s)
                       THEN "racing" ELSE "deleted",
                       <<>>, KnownOf(s).st, FALSE, FALSE)
    IN  /\ Send(c, delete_file_request(s), NoFile)
        /\ expect' = AfterDeleteCall(c, s, mine)
        /\ abs' = [k \in DOMAIN abs |->
                       IF k = s /\ abs[k].st \notin {"never", "deleted"} THEN Racing
                       ELSE abs[k]]

\* file_exists, up to the request
FileExistsCall(c, s) ==
    /\ Send(c, file_exists_request(s), NoFile)
    /\ expect' = [expect EXCEPT ![c] = ReadExpect(s)]
    /\ UNCHANGED abs

-----------------------------------------------------------------------------
(* The service *)

Reply(c, r) ==
    /\ resp' = [resp EXCEPT ![c] = r]
    /\ pc' = [pc EXCEPT ![c] = "responded"]

Routed(c, method, route) ==
    pc[c] \in {"sent", "staging"} /\ req[c].method = method /\ req[c].route = route

\* store, first part: the body is streamed into a temporary in bounded chunks
ServeStoreStage(c) ==
    /\ Routed(c, "POST", "store")
    /\ Len(tmp[c]) < Len(req[c].body)
    /\ IF Len(req[c].body) > maxBlobSize
       THEN /\ Reply(c, Response(413, JsonBody({"error"}, <<>>, FALSE), "store"))
            /\ tmp' = [tmp EXCEPT ![c] = <<>>]
       ELSE LET n == Len(tmp[c])
                m == IF n + StreamChunk < Len(req[c].body) THEN n + StreamChunk
                     ELSE Len(req[c].body)
            IN  /\ tmp' = [tmp EXCEPT ![c] = @ \o SubSeq(req[c].body, n + 1, m)]
                /\ pc' = [pc EXCEPT ![c] = "staging"]
                /\ UNCHANGED resp
    /\ UNCHANGED <<localFiles, outpath, req, entries, ncalls, abs, expect, returned, last>>

\* store, second part: hash the temporary and publish it atomically
ServeStorePublish(c) ==
    /\ Routed(c, "POST", "store")
    /\ tmp[c] = req[c].body
    /\ LET d == Digest(tmp[c])
       IN  /\ entries' = Publish(entries, d, tmp[c])
           /\ Reply(c, Response(200, JsonBody({"sha1"}, hexdigest(d), FALSE), "store"))
    /\ tmp' = [tmp EXCEPT ![c] = <<>>]
    /\ UNCHANGED <<localFiles, outpath, req, ncalls, abs, expect, returned, last>>

\* fetch: the bytes stored under the digest, or NotFound
ServeFetch(c) ==
    /\ Routed(c, "GET", "file")
    /\ LET d == ParseHex(req[c].sha1)
       IN  IF Present(d)
           THEN Reply(c, Response(200, BytesBody(Lookup(d)), "store"))
           ELSE Reply(c, Response(404, JsonBody({"error"}, <<>>, FALSE), "store"))
    /\ UNCHANGED <<localFiles, outpath, req, tmp, entries, ncalls, abs, expect, returned, last>>

\* delete: remove the entry if present, acknowledge either way
ServeDelete(c) ==
    /\ Routed(c, "DELETE", "file")
    /\ entries' = Remove(entries, ParseHex(req[c].sha1))
    /\ Reply(c, Response(200, JsonBody({"message"}, <<>>, FALSE), "store"))
    /\ UNCHANGED <<localFiles, outpath, req, tmp, ncalls, abs, expect, returned, last>>

\* exists
ServeExists(c) ==
    /\ Routed(c, "GET", "exists")
    /\ Reply(c, Response(200, JsonBody({"exists"}, <<>>, Present(ParseHex(req[c].sha1))),
                         "store"))
    /\ UNCHANGED <<localFiles, outpath, req, tmp, entries, ncalls, abs, expect, returned, last>>

\* an answer that does not come from a store operation: the authorization
\* filter, a backend I/O failure, an intermediary answering for the service.
\* The store is not touched, and an upload cut short leaves nothing behind.
FilterStatus == {304, 500}

Refuse(c, status) ==
    /\ pc[c] \in {"sent", "staging"}
    /\ Reply(c, Response(status, BytesBody(<<>>), "filter"))
    /\ tmp' = [tmp EXCEPT ![c] = <<>>]
    /\ UNCHANGED <<localFiles, outpath, req, entries, ncalls, abs, expect, returned, last>>

-----------------------------------------------------------------------------
(* Client calls: the response comes back *)

Return(c, result, after) ==
    /\ pc[c] = "responded"
    /\ last' = Finished(c, result, outpath[c], after)
    /\ outpath' = [outpath EXCEPT ![c] = NoFile]
    /\ pc' = [pc EXCEPT ![c] = "idle"]
    /\ req' = [req EXCEPT ![c] = NoReq]
    /\ resp' = [resp EXCEPT ![c] = NoResp]
    /\ expect' = [expect EXCEPT ![c] = NoExpect]
    /\ UNCHANGED <<localFiles, tmp, entries, ncalls>>

\* store_file, from the response on
StoreFileReturn(c) ==
    /\ req[c].op = "store"
    /\ LET result == store_file_result(resp[c])
           good == ~result.raised /\ resp[c].by = "store"
       IN  /\ Return(c, result, outpath[c])
           /\ returned' = IF good
                          THEN returned \cup {[body |-> expect[c].data, sha1 |-> result.sha1]}
                          ELSE returned
           /\ abs' = IF good /\ expect[c].st = "present"
                     THEN [abs EXCEPT ![ShaOf(c)] = Known("present", expect[c].data)]
                     ELSE abs

\* get_file, from the response on
GetFileReturn(c) ==
    /\ req[c].op = "get"
    /\ Return(c, get_file_result(resp[c]), get_file_output(outpath[c], resp[c]))
    /\ UNCHANGED <<abs, returned>>

\* delete_file, from the response on
DeleteFileReturn(c) ==
    /\ req[c].op = "delete"
    /\ LET result == delete_file_result(resp[c])
       IN  /\ Return(c, result, outpath[c])
           /\ abs' = IF ~result.raised /\ resp[c].by = "store" /\ expect[c].st = "deleted"
                     THEN [k \in DOMAIN abs |-> IF k = ShaOf(c) THEN Deleted ELSE abs[k]]
                     ELSE abs
    /\ UNCHANGED returned

\* file_exists, from the response on
FileExistsReturn(c) ==
    /\ req[c].op = "exists"
    /\ Return(c, file_exists_result(resp[c]), outpath[c])
    /\ UNCHANGED <<abs, returned>>

-----------------------------------------------------------------------------

Next ==
    \/ \E c \in Callers, p \in Paths : StoreFileCall(c, p)
    \/ \E c \in Callers, s \in ShaArgs, f \in OutputFiles : GetFileCall(c, s, f)
    \/ \E c \in Callers, s \in ShaArgs : DeleteFileCall(c, s)
    \/ \E c \in Callers, s \in ShaArgs : FileExistsCall(c, s)
    \/ \E c \in Callers : ServeStoreStage(c)
    \/ \E c \in Callers : ServeStorePublish(c)
    \/ \E c \in Callers : ServeFetch(c)
    \/ \E c \in Callers : ServeDelete(c)
    \/ \E c \in Callers : ServeExists(c)
    \/ \E c \in Callers, status \in FilterStatus : Refuse(c, status)
    \/ \E c \in Callers : StoreFileReturn(c)
    \/ \E c \in Callers : GetFileReturn(c)
    \/ \E c \in Callers : DeleteFileReturn(c)
    \/ \E c \in Callers : FileExistsReturn(c)

Spec == Init /\ [][Next]_vars

-----------------------------------------------------------------------------
(* Properties *)

Ok(op) == last.op = op /\ last.by = "store" /\ ~last.result.raised
WholeFile(b) == [exists |-> TRUE, data |-> b]
TheFile == localFiles["test.txt"]
Idle == \A c \in Callers : pc[c] = "idle"

\* C1: once store_file has returned the sha1 of content b, and no delete of
\* that sha1 has run since or at the same time, get_file with that sha1
\* returns and leaves exactly b in the output file; the sha1 store_file
\* returns is the digest of b.
C1_StoreThenFetch ==
    /\ \A r \in returned : r.sha1 = Sha1Hex(r.body)
    /\ (last.op = "get" /\ last.by = "store" /\ last.expect.st = "present")
          => (~last.result.raised /\ last.after = WholeFile(last.expect.data))

C1_Witness ==
    /\ Ok("get") /\ last.expect.st = "present"
    /\ returned # {} /\ last.sha1 \in {r.sha1 : r \in returned}
    /\ last.before.exists
    /\ Len(last.after.data) > chunk_size
    /\ last.after.data = TheFile

\* C2: a store_file of content that store_file has returned a sha1 for before
\* returns, and returns that same sha1; as long as no delete of it is called,
\* the store then holds exactly one entry for the digest, with those bytes.
C2_StoreTwice ==
    (last.op = "store" /\ last.by = "store" /\ last.expect.again) =>
        /\ ~last.result.raised
        /\ \A r \in returned : r.body = last.body => r.sha1 = last.result.sha1
        /\ KnownOf(last.sha1).st = "present" =>
              /\ Cardinality(EntriesFor(Digest(last.body))) = 1
              /\ Lookup(Digest(last.body)) = last.body

C2_Witness ==
    /\ Ok("store") /\ last.expect.again
    /\ KnownOf(last.sha1).st = "present"
    /\ Len(last.body) > 1
    /\ returned = {[body |-> last.body, sha1 |-> last.result.sha1]}

\* C3: no digest ever has two entries; a store_file that ran at the same time
\* as another store_file of the same content returns the sha1 the others
\* return, and with no delete about the store ends up holding exactly one
\* entry for it, with the content's bytes.
C3_ConcurrentStores ==
    /\ \A i, j \in 1..Len(entries) : entries[i].digest = entries[j].digest => i = j
    /\ (last.op = "store" /\ last.by = "store" /\ last.status = 200 /\ last.expect.overlap) =>
          /\ ~last.result.raised
          /\ \A r \in returned : r.body = last.body => r.sha1 = last.result.sha1
          /\ \A k \in Callers :
                (pc[k] = "responded" /\ req[k].op = "store" /\ resp[k].by = "store"
                    /\ resp[k].status = 200 /\ expect[k].data = last.body)
                => resp[k].body.sha1 = last.result.sha1
          /\ KnownOf(last.sha1).st = "present" =>
                /\ Cardinality(EntriesFor(Digest(last.body))) = 1
                /\ Lookup(Digest(last.body)) = last.body

C3_Witness ==
    /\ Ok("store") /\ last.expect.overlap /\ ~last.expect.again
    /\ last.expect.prior = "never"
    /\ \E k \in Callers :
          /\ pc[k] = "responded" /\ req[k].op = "store" /\ resp[k].by = "store"
          /\ resp[k].status = 200 /\ expect[k].overlap
    /\ Cardinality(EntriesFor(Digest(last.body))) = 1

\* C4: a delete_file the store serves returns its ack, whether the entry was
\* present, absent or deleted before; and once it has returned, with no store
\* of that digest at the same time or later, the entry is absent.
C4_DeleteTwice ==
    /\ (last.op = "delete" /\ last.by = "store") => ~last.result.raised
    /\ (last.op = "delete" /\ last.by = "store" /\ KnownOf(last.sha1).st = "deleted")
          => ~Present(ParseHex(last.sha1))

C4_Witness ==
    /\ Ok("delete") /\ last.expect.prior = "deleted"
    /\ KnownOf(last.sha1).st = "deleted"
    /\ ~Present(ParseHex(last.sha1))

\* C5: for a sha1 that was never stored, or was deleted after its last store,
\* file_exists returns False and get_file raises on a 404 without touching
\* the output file.
C5_AbsentReads ==
    /\ (last.op = "exists" /\ last.by = "store" /\ last.expect.st \in {"never", "deleted"})
          => (~last.result.raised /\ last.result.exists = FALSE)
    /\ (last.op = "get" /\ last.by = "store" /\ last.expect.st \in {"never", "deleted"})
          => /\ last.result.raised /\ last.result.error = "HTTPError"
             /\ last.status = 404
             /\ last.after = last.before

C5_Witness ==
    /\ last.op = "get" /\ last.by = "store" /\ last.expect.st = "deleted"
    /\ last.result.raised /\ last.before.exists

\* C6: whatever deletes and stores of a digest run at the same time, the
\* store holds either no entry for it or exactly one entry with the complete
\* bytes that were stored.
C6_DeleteVersusStore ==
    \A i \in 1..Len(entries) :
        entries[i].digest = Digest(TheFile) =>
            entries[i].data = TheFile /\ EntriesFor(Digest(TheFile)) = {i}

C6_Witness ==
    /\ Ok("delete") /\ last.expect.st = "racing" /\ last.expect.prior = "racing"
    /\ Idle
    /\ Present(Digest(TheFile)) /\ Len(TheFile) > 1

\* C7: every entry that exists holds bytes whose hash is its digest, and a
\* get_file that returns has written bytes whose hash is the sha1 asked for,
\* also when a store or a delete of that digest runs at the same time.
C7_NoHalfWrittenEntry ==
    /\ \A i \in 1..Len(entries) : Digest(entries[i].data) = entries[i].digest
    /\ (last.op = "get" /\ last.by = "store" /\ ~last.result.raised)
          => Sha1Hex(last.after.data) = last.sha1

C7_Witness ==
    /\ Ok("get") /\ Len(last.after.data) > 1
    /\ \E k \in Callers :
          /\ pc[k] = "staging" /\ req[k].op = "store"
          /\ tmp[k] # <<>> /\ tmp[k] # req[k].body
          /\ Sha1Hex(req[k].body) = last.sha1

\* C8: every IOClient method raises on a response whose status is not 2xx.
C8_NonSuccessRaises ==
    (last.op # "none" /\ ~(200 <= last.status /\ last.status <= 299))
        => last.result.raised

\* C9: a step of get_file or file_exists, on the client or in the service,
\* whether the call succeeds or fails, leaves every entry of the store as it
\* was.
ReadStep ==
    \E c \in Callers :
        /\ pc'[c] # pc[c]
        /\ req[c].op \in {"get", "exists"} \/ req'[c].op \in {"get", "exists"}

C9_ReadsArePure == [][ReadStep => (entries' = entries /\ tmp' = tmp)]_vars

C9_Witness ==
    /\ last.op = "get" /\ last.by = "store" /\ last.result.raised
    /\ last.expect.prior = "deleted"
    /\ Len(entries) >= 1

\* C10: when get_file receives a response whose status is not 2xx, it raises
\* and the file at output_path is as it was before the call.
C10_FailedGetLeavesFile ==
    (last.op = "get" /\ ~(200 <= last.status /\ last.status <= 299))
        => (last.result.raised /\ last.after = last.before)

====
